---- MODULE Spec2Model ----
(***************************************************************************)
(* Model of valida_cnpj_receita.py: extraction of CNPJ identifiers from a  *)
(* table of cells, one registry lookup per unique identifier, and the      *)
(* four report rows appended for each identifier.                          *)
(*                                                                         *)
(* A str is the sequence of the Unicode code points of its characters      *)
(* ("Rio" is <<82, 105, 111>>); the text of a literal is given in a        *)
(* comment next to it.  The keys of a dict and the two-valued verdict of   *)
(* a row are strings of the model.  The character tables are those of      *)
(* Unicode 14 (CPython 3.11).                                              *)
(***************************************************************************)
EXTENDS Integers, Sequences, FiniteSets, TLC

VARIABLES df, pc, cnpjs_unicos, i, receita, resultados, criado, warning,
          consultas, respostas, anterior

vars == <<df, pc, cnpjs_unicos, i, receita, resultados, criado, warning,
          consultas, respostas, anterior>>

(***************************************************************************)
(* Bounds of the model.                                                    *)
(***************************************************************************)
MaxCells == 2

(***************************************************************************)
(* Python values: str, int, None, dict.                                    *)
(***************************************************************************)
Str(s)  == [t |-> "str", v |-> s]
Num(n)  == [t |-> "num", v |-> n]
Null    == [t |-> "null", v |-> 0]
Obj(f)  == [t |-> "obj", v |-> f]
Lst     == [t |-> "list", v |-> 0]

EmptyStr == Str(<< >>)
EmptyObj == Obj(<< >>)

\* bool(v)
Truthy(v) ==
    CASE v.t = "str"  -> Len(v.v) > 0
      [] v.t = "num"  -> v.v # 0
      [] v.t = "null" -> FALSE
      [] v.t = "obj"  -> DOMAIN v.v # {}
      [] v.t = "list" -> FALSE

\* a or b
PyOr(a, b) == IF Truthy(a) THEN a ELSE b

\* d.get(k, default) on the mapping d
Get(d, k, default) == IF k \in DOMAIN d THEN d[k] ELSE default

\* type(v).__name__, as it appears in an AttributeError message
TypeName(v) ==
    CASE v.t = "str"  -> <<115, 116, 114>>  \* "str"
      [] v.t = "num"  -> <<105, 110, 116>>  \* "int"
      [] v.t = "null" -> <<78, 111, 110, 101, 84, 121, 112, 101>>  \* "NoneType"
      [] v.t = "obj"  -> <<100, 105, 99, 116>>  \* "dict"
      [] v.t = "list" -> <<108, 105, 115, 116>>  \* "list"

\* str(AttributeError) for a missing attribute
AttrError(v, attr) ==
    <<39>> \o TypeName(v)  \* "'"
      \o <<39, 32, 111, 98, 106, 101, 99, 116, 32, 104, 97, 115, 32, 110, 111, 32, 97, 116, 116, 114, 105, 98, 117, 116, 101, 32, 39>>  \* "' object has no attribute '"
      \o attr \o <<39>>  \* "'"

RECURSIVE Digits(_)
\* decimal digits of a natural number; 48 is "0"
Digits(n) == IF n < 10 THEN <<48 + n>>
             ELSE Digits(n \div 10) \o <<48 + (n % 10)>>

\* str(v) for the values that reach a conversion: str and non-negative int
PyStr(v) == IF v.t = "str" THEN v.v ELSE Digits(v.v)

RECURSIVE Concat(_)
Concat(ss) == IF ss = << >> THEN << >> ELSE Head(ss) \o Concat(Tail(ss))

\* c lies in one of the ranges <<first, last>> of the table
InRuns(c, table) == \E r \in 1..Len(table) : table[r][1] <= c /\ c <= table[r][2]

\* the characters with a one-character lowercase other than themselves:
\* <<first, last, step, delta>> lowers first, first + step, ..., last by delta
LowerRuns ==
  <<
    <<65, 90, 1, 32>>, <<192, 214, 1, 32>>, <<216, 222, 1, 32>>, <<256, 302, 2, 1>>,
    <<306, 310, 2, 1>>, <<313, 327, 2, 1>>, <<330, 374, 2, 1>>, <<376, 376, 1, -121>>,
    <<377, 381, 2, 1>>, <<385, 385, 1, 210>>, <<386, 388, 2, 1>>, <<390, 390, 1, 206>>,
    <<391, 391, 1, 1>>, <<393, 394, 1, 205>>, <<395, 395, 1, 1>>, <<398, 398, 1, 79>>,
    <<399, 399, 1, 202>>, <<400, 400, 1, 203>>, <<401, 401, 1, 1>>, <<403, 403, 1,
    205>>, <<404, 404, 1, 207>>, <<406, 406, 1, 211>>, <<407, 407, 1, 209>>, <<408, 408,
    1, 1>>, <<412, 412, 1, 211>>, <<413, 413, 1, 213>>, <<415, 415, 1, 214>>, <<416,
    420, 2, 1>>, <<422, 422, 1, 218>>, <<423, 423, 1, 1>>, <<425, 425, 1, 218>>, <<428,
    428, 1, 1>>, <<430, 430, 1, 218>>, <<431, 431, 1, 1>>, <<433, 434, 1, 217>>, <<435,
    437, 2, 1>>, <<439, 439, 1, 219>>, <<440, 440, 1, 1>>, <<444, 444, 1, 1>>, <<452,
    452, 1, 2>>, <<453, 453, 1, 1>>, <<455, 455, 1, 2>>, <<456, 456, 1, 1>>, <<458, 458,
    1, 2>>, <<459, 475, 2, 1>>, <<478, 494, 2, 1>>, <<497, 497, 1, 2>>, <<498, 500, 2,
    1>>, <<502, 502, 1, -97>>, <<503, 503, 1, -56>>, <<504, 542, 2, 1>>, <<544, 544, 1,
    -130>>, <<546, 562, 2, 1>>, <<570, 570, 1, 10795>>, <<571, 571, 1, 1>>, <<573, 573,
    1, -163>>, <<574, 574, 1, 10792>>, <<577, 577, 1, 1>>, <<579, 579, 1, -195>>, <<580,
    580, 1, 69>>, <<581, 581, 1, 71>>, <<582, 590, 2, 1>>, <<880, 882, 2, 1>>, <<886,
    886, 1, 1>>, <<895, 895, 1, 116>>, <<902, 902, 1, 38>>, <<904, 906, 1, 37>>, <<908,
    908, 1, 64>>, <<910, 911, 1, 63>>, <<913, 929, 1, 32>>, <<931, 939, 1, 32>>, <<975,
    975, 1, 8>>, <<984, 1006, 2, 1>>, <<1012, 1012, 1, -60>>, <<1015, 1015, 1, 1>>,
    <<1017, 1017, 1, -7>>, <<1018, 1018, 1, 1>>, <<1021, 1023, 1, -130>>, <<1024, 1039,
    1, 80>>, <<1040, 1071, 1, 32>>, <<1120, 1152, 2, 1>>, <<1162, 1214, 2, 1>>, <<1216,
    1216, 1, 15>>, <<1217, 1229, 2, 1>>, <<1232, 1326, 2, 1>>, <<1329, 1366, 1, 48>>,
    <<4256, 4293, 1, 7264>>, <<4295, 4295, 1, 7264>>, <<4301, 4301, 1, 7264>>, <<5024,
    5103, 1, 38864>>, <<5104, 5109, 1, 8>>, <<7312, 7354, 1, -3008>>, <<7357, 7359, 1,
    -3008>>, <<7680, 7828, 2, 1>>, <<7838, 7838, 1, -7615>>, <<7840, 7934, 2, 1>>,
    <<7944, 7951, 1, -8>>, <<7960, 7965, 1, -8>>, <<7976, 7983, 1, -8>>, <<7992, 7999,
    1, -8>>, <<8008, 8013, 1, -8>>, <<8025, 8031, 2, -8>>, <<8040, 8047, 1, -8>>,
    <<8072, 8079, 1, -8>>, <<8088, 8095, 1, -8>>, <<8104, 8111, 1, -8>>, <<8120, 8121,
    1, -8>>, <<8122, 8123, 1, -74>>, <<8124, 8124, 1, -9>>, <<8136, 8139, 1, -86>>,
    <<8140, 8140, 1, -9>>, <<8152, 8153, 1, -8>>, <<8154, 8155, 1, -100>>, <<8168, 8169,
    1, -8>>, <<8170, 8171, 1, -112>>, <<8172, 8172, 1, -7>>, <<8184, 8185, 1, -128>>,
    <<8186, 8187, 1, -126>>, <<8188, 8188, 1, -9>>, <<8486, 8486, 1, -7517>>, <<8490,
    8490, 1, -8383>>, <<8491, 8491, 1, -8262>>, <<8498, 8498, 1, 28>>, <<8544, 8559, 1,
    16>>, <<8579, 8579, 1, 1>>, <<9398, 9423, 1, 26>>, <<11264, 11311, 1, 48>>, <<11360,
    11360, 1, 1>>, <<11362, 11362, 1, -10743>>, <<11363, 11363, 1, -3814>>, <<11364,
    11364, 1, -10727>>, <<11367, 11371, 2, 1>>, <<11373, 11373, 1, -10780>>, <<11374,
    11374, 1, -10749>>, <<11375, 11375, 1, -10783>>, <<11376, 11376, 1, -10782>>,
    <<11378, 11378, 1, 1>>, <<11381, 11381, 1, 1>>, <<11390, 11391, 1, -10815>>,
    <<11392, 11490, 2, 1>>, <<11499, 11501, 2, 1>>, <<11506, 11506, 1, 1>>, <<42560,
    42604, 2, 1>>, <<42624, 42650, 2, 1>>, <<42786, 42798, 2, 1>>, <<42802, 42862, 2,
    1>>, <<42873, 42875, 2, 1>>, <<42877, 42877, 1, -35332>>, <<42878, 42886, 2, 1>>,
    <<42891, 42891, 1, 1>>, <<42893, 42893, 1, -42280>>, <<42896, 42898, 2, 1>>,
    <<42902, 42920, 2, 1>>, <<42922, 42922, 1, -42308>>, <<42923, 42923, 1, -42319>>,
    <<42924, 42924, 1, -42315>>, <<42925, 42925, 1, -42305>>, <<42926, 42926, 1,
    -42308>>, <<42928, 42928, 1, -42258>>, <<42929, 42929, 1, -42282>>, <<42930, 42930,
    1, -42261>>, <<42931, 42931, 1, 928>>, <<42932, 42946, 2, 1>>, <<42948, 42948, 1,
    -48>>, <<42949, 42949, 1, -42307>>, <<42950, 42950, 1, -35384>>, <<42951, 42953, 2,
    1>>, <<42960, 42960, 1, 1>>, <<42966, 42968, 2, 1>>, <<42997, 42997, 1, 1>>,
    <<65313, 65338, 1, 32>>, <<66560, 66599, 1, 40>>, <<66736, 66771, 1, 40>>, <<66928,
    66964, 2, 39>>, <<66929, 66937, 2, 39>>, <<66941, 66953, 2, 39>>, <<66957, 66961, 2,
    39>>, <<66965, 66965, 1, 39>>, <<68736, 68786, 1, 64>>, <<71840, 71871, 1, 32>>,
    <<93760, 93791, 1, 32>>, <<125184, 125217, 1, 34>>
  >>

\* the cased characters that are not case-ignorable, as ranges
CasedRuns ==
  <<
    <<65, 90>>, <<97, 122>>, <<170, 170>>, <<181, 181>>, <<186, 186>>, <<192, 214>>,
    <<216, 246>>, <<248, 442>>, <<444, 447>>, <<452, 659>>, <<661, 687>>, <<880, 883>>,
    <<886, 887>>, <<891, 893>>, <<895, 895>>, <<902, 902>>, <<904, 906>>, <<908, 908>>,
    <<910, 929>>, <<931, 1013>>, <<1015, 1153>>, <<1162, 1327>>, <<1329, 1366>>, <<1376,
    1416>>, <<4256, 4293>>, <<4295, 4295>>, <<4301, 4301>>, <<4304, 4346>>, <<4349,
    4351>>, <<5024, 5109>>, <<5112, 5117>>, <<7296, 7304>>, <<7312, 7354>>, <<7357,
    7359>>, <<7424, 7467>>, <<7531, 7543>>, <<7545, 7578>>, <<7680, 7957>>, <<7960,
    7965>>, <<7968, 8005>>, <<8008, 8013>>, <<8016, 8023>>, <<8025, 8025>>, <<8027,
    8027>>, <<8029, 8029>>, <<8031, 8061>>, <<8064, 8116>>, <<8118, 8124>>, <<8126,
    8126>>, <<8130, 8132>>, <<8134, 8140>>, <<8144, 8147>>, <<8150, 8155>>, <<8160,
    8172>>, <<8178, 8180>>, <<8182, 8188>>, <<8450, 8450>>, <<8455, 8455>>, <<8458,
    8467>>, <<8469, 8469>>, <<8473, 8477>>, <<8484, 8484>>, <<8486, 8486>>, <<8488,
    8488>>, <<8490, 8493>>, <<8495, 8500>>, <<8505, 8505>>, <<8508, 8511>>, <<8517,
    8521>>, <<8526, 8526>>, <<8544, 8575>>, <<8579, 8580>>, <<9398, 9449>>, <<11264,
    11387>>, <<11390, 11492>>, <<11499, 11502>>, <<11506, 11507>>, <<11520, 11557>>,
    <<11559, 11559>>, <<11565, 11565>>, <<42560, 42605>>, <<42624, 42651>>, <<42786,
    42863>>, <<42865, 42887>>, <<42891, 42894>>, <<42896, 42954>>, <<42960, 42961>>,
    <<42963, 42963>>, <<42965, 42969>>, <<42997, 42998>>, <<43002, 43002>>, <<43824,
    43866>>, <<43872, 43880>>, <<43888, 43967>>, <<64256, 64262>>, <<64275, 64279>>,
    <<65313, 65338>>, <<65345, 65370>>, <<66560, 66639>>, <<66736, 66771>>, <<66776,
    66811>>, <<66928, 66938>>, <<66940, 66954>>, <<66956, 66962>>, <<66964, 66965>>,
    <<66967, 66977>>, <<66979, 66993>>, <<66995, 67001>>, <<67003, 67004>>, <<68736,
    68786>>, <<68800, 68850>>, <<71840, 71903>>, <<93760, 93823>>, <<119808, 119892>>,
    <<119894, 119964>>, <<119966, 119967>>, <<119970, 119970>>, <<119973, 119974>>,
    <<119977, 119980>>, <<119982, 119993>>, <<119995, 119995>>, <<119997, 120003>>,
    <<120005, 120069>>, <<120071, 120074>>, <<120077, 120084>>, <<120086, 120092>>,
    <<120094, 120121>>, <<120123, 120126>>, <<120128, 120132>>, <<120134, 120134>>,
    <<120138, 120144>>, <<120146, 120485>>, <<120488, 120512>>, <<120514, 120538>>,
    <<120540, 120570>>, <<120572, 120596>>, <<120598, 120628>>, <<120630, 120654>>,
    <<120656, 120686>>, <<120688, 120712>>, <<120714, 120744>>, <<120746, 120770>>,
    <<120772, 120779>>, <<122624, 122633>>, <<122635, 122654>>, <<125184, 125251>>,
    <<127280, 127305>>, <<127312, 127337>>, <<127344, 127369>>
  >>

\* the case-ignorable characters, as ranges
IgnorableRuns ==
  <<
    <<39, 39>>, <<46, 46>>, <<58, 58>>, <<94, 94>>, <<96, 96>>, <<168, 168>>, <<173,
    173>>, <<175, 175>>, <<180, 180>>, <<183, 184>>, <<688, 879>>, <<884, 885>>, <<890,
    890>>, <<900, 901>>, <<903, 903>>, <<1155, 1161>>, <<1369, 1369>>, <<1375, 1375>>,
    <<1425, 1469>>, <<1471, 1471>>, <<1473, 1474>>, <<1476, 1477>>, <<1479, 1479>>,
    <<1524, 1524>>, <<1536, 1541>>, <<1552, 1562>>, <<1564, 1564>>, <<1600, 1600>>,
    <<1611, 1631>>, <<1648, 1648>>, <<1750, 1757>>, <<1759, 1768>>, <<1770, 1773>>,
    <<1807, 1807>>, <<1809, 1809>>, <<1840, 1866>>, <<1958, 1968>>, <<2027, 2037>>,
    <<2042, 2042>>, <<2045, 2045>>, <<2070, 2093>>, <<2137, 2139>>, <<2184, 2184>>,
    <<2192, 2193>>, <<2200, 2207>>, <<2249, 2306>>, <<2362, 2362>>, <<2364, 2364>>,
    <<2369, 2376>>, <<2381, 2381>>, <<2385, 2391>>, <<2402, 2403>>, <<2417, 2417>>,
    <<2433, 2433>>, <<2492, 2492>>, <<2497, 2500>>, <<2509, 2509>>, <<2530, 2531>>,
    <<2558, 2558>>, <<2561, 2562>>, <<2620, 2620>>, <<2625, 2626>>, <<2631, 2632>>,
    <<2635, 2637>>, <<2641, 2641>>, <<2672, 2673>>, <<2677, 2677>>, <<2689, 2690>>,
    <<2748, 2748>>, <<2753, 2757>>, <<2759, 2760>>, <<2765, 2765>>, <<2786, 2787>>,
    <<2810, 2815>>, <<2817, 2817>>, <<2876, 2876>>, <<2879, 2879>>, <<2881, 2884>>,
    <<2893, 2893>>, <<2901, 2902>>, <<2914, 2915>>, <<2946, 2946>>, <<3008, 3008>>,
    <<3021, 3021>>, <<3072, 3072>>, <<3076, 3076>>, <<3132, 3132>>, <<3134, 3136>>,
    <<3142, 3144>>, <<3146, 3149>>, <<3157, 3158>>, <<3170, 3171>>, <<3201, 3201>>,
    <<3260, 3260>>, <<3263, 3263>>, <<3270, 3270>>, <<3276, 3277>>, <<3298, 3299>>,
    <<3328, 3329>>, <<3387, 3388>>, <<3393, 3396>>, <<3405, 3405>>, <<3426, 3427>>,
    <<3457, 3457>>, <<3530, 3530>>, <<3538, 3540>>, <<3542, 3542>>, <<3633, 3633>>,
    <<3636, 3642>>, <<3654, 3662>>, <<3761, 3761>>, <<3764, 3772>>, <<3782, 3782>>,
    <<3784, 3789>>, <<3864, 3865>>, <<3893, 3893>>, <<3895, 3895>>, <<3897, 3897>>,
    <<3953, 3966>>, <<3968, 3972>>, <<3974, 3975>>, <<3981, 3991>>, <<3993, 4028>>,
    <<4038, 4038>>, <<4141, 4144>>, <<4146, 4151>>, <<4153, 4154>>, <<4157, 4158>>,
    <<4184, 4185>>, <<4190, 4192>>, <<4209, 4212>>, <<4226, 4226>>, <<4229, 4230>>,
    <<4237, 4237>>, <<4253, 4253>>, <<4348, 4348>>, <<4957, 4959>>, <<5906, 5908>>,
    <<5938, 5939>>, <<5970, 5971>>, <<6002, 6003>>, <<6068, 6069>>, <<6071, 6077>>,
    <<6086, 6086>>, <<6089, 6099>>, <<6103, 6103>>, <<6109, 6109>>, <<6155, 6159>>,
    <<6211, 6211>>, <<6277, 6278>>, <<6313, 6313>>, <<6432, 6434>>, <<6439, 6440>>,
    <<6450, 6450>>, <<6457, 6459>>, <<6679, 6680>>, <<6683, 6683>>, <<6742, 6742>>,
    <<6744, 6750>>, <<6752, 6752>>, <<6754, 6754>>, <<6757, 6764>>, <<6771, 6780>>,
    <<6783, 6783>>, <<6823, 6823>>, <<6832, 6862>>, <<6912, 6915>>, <<6964, 6964>>,
    <<6966, 6970>>, <<6972, 6972>>, <<6978, 6978>>, <<7019, 7027>>, <<7040, 7041>>,
    <<7074, 7077>>, <<7080, 7081>>, <<7083, 7085>>, <<7142, 7142>>, <<7144, 7145>>,
    <<7149, 7149>>, <<7151, 7153>>, <<7212, 7219>>, <<7222, 7223>>, <<7288, 7293>>,
    <<7376, 7378>>, <<7380, 7392>>, <<7394, 7400>>, <<7405, 7405>>, <<7412, 7412>>,
    <<7416, 7417>>, <<7468, 7530>>, <<7544, 7544>>, <<7579, 7679>>, <<8125, 8125>>,
    <<8127, 8129>>, <<8141, 8143>>, <<8157, 8159>>, <<8173, 8175>>, <<8189, 8190>>,
    <<8203, 8207>>, <<8216, 8217>>, <<8228, 8228>>, <<8231, 8231>>, <<8234, 8238>>,
    <<8288, 8292>>, <<8294, 8303>>, <<8305, 8305>>, <<8319, 8319>>, <<8336, 8348>>,
    <<8400, 8432>>, <<11388, 11389>>, <<11503, 11505>>, <<11631, 11631>>, <<11647,
    11647>>, <<11744, 11775>>, <<11823, 11823>>, <<12293, 12293>>, <<12330, 12333>>,
    <<12337, 12341>>, <<12347, 12347>>, <<12441, 12446>>, <<12540, 12542>>, <<40981,
    40981>>, <<42232, 42237>>, <<42508, 42508>>, <<42607, 42610>>, <<42612, 42621>>,
    <<42623, 42623>>, <<42652, 42655>>, <<42736, 42737>>, <<42752, 42785>>, <<42864,
    42864>>, <<42888, 42890>>, <<42994, 42996>>, <<43000, 43001>>, <<43010, 43010>>,
    <<43014, 43014>>, <<43019, 43019>>, <<43045, 43046>>, <<43052, 43052>>, <<43204,
    43205>>, <<43232, 43249>>, <<43263, 43263>>, <<43302, 43309>>, <<43335, 43345>>,
    <<43392, 43394>>, <<43443, 43443>>, <<43446, 43449>>, <<43452, 43453>>, <<43471,
    43471>>, <<43493, 43494>>, <<43561, 43566>>, <<43569, 43570>>, <<43573, 43574>>,
    <<43587, 43587>>, <<43596, 43596>>, <<43632, 43632>>, <<43644, 43644>>, <<43696,
    43696>>, <<43698, 43700>>, <<43703, 43704>>, <<43710, 43711>>, <<43713, 43713>>,
    <<43741, 43741>>, <<43756, 43757>>, <<43763, 43764>>, <<43766, 43766>>, <<43867,
    43871>>, <<43881, 43883>>, <<44005, 44005>>, <<44008, 44008>>, <<44013, 44013>>,
    <<64286, 64286>>, <<64434, 64450>>, <<65024, 65039>>, <<65043, 65043>>, <<65056,
    65071>>, <<65106, 65106>>, <<65109, 65109>>, <<65279, 65279>>, <<65287, 65287>>,
    <<65294, 65294>>, <<65306, 65306>>, <<65342, 65342>>, <<65344, 65344>>, <<65392,
    65392>>, <<65438, 65439>>, <<65507, 65507>>, <<65529, 65531>>, <<66045, 66045>>,
    <<66272, 66272>>, <<66422, 66426>>, <<67456, 67461>>, <<67463, 67504>>, <<67506,
    67514>>, <<68097, 68099>>, <<68101, 68102>>, <<68108, 68111>>, <<68152, 68154>>,
    <<68159, 68159>>, <<68325, 68326>>, <<68900, 68903>>, <<69291, 69292>>, <<69446,
    69456>>, <<69506, 69509>>, <<69633, 69633>>, <<69688, 69702>>, <<69744, 69744>>,
    <<69747, 69748>>, <<69759, 69761>>, <<69811, 69814>>, <<69817, 69818>>, <<69821,
    69821>>, <<69826, 69826>>, <<69837, 69837>>, <<69888, 69890>>, <<69927, 69931>>,
    <<69933, 69940>>, <<70003, 70003>>, <<70016, 70017>>, <<70070, 70078>>, <<70089,
    70092>>, <<70095, 70095>>, <<70191, 70193>>, <<70196, 70196>>, <<70198, 70199>>,
    <<70206, 70206>>, <<70367, 70367>>, <<70371, 70378>>, <<70400, 70401>>, <<70459,
    70460>>, <<70464, 70464>>, <<70502, 70508>>, <<70512, 70516>>, <<70712, 70719>>,
    <<70722, 70724>>, <<70726, 70726>>, <<70750, 70750>>, <<70835, 70840>>, <<70842,
    70842>>, <<70847, 70848>>, <<70850, 70851>>, <<71090, 71093>>, <<71100, 71101>>,
    <<71103, 71104>>, <<71132, 71133>>, <<71219, 71226>>, <<71229, 71229>>, <<71231,
    71232>>, <<71339, 71339>>, <<71341, 71341>>, <<71344, 71349>>, <<71351, 71351>>,
    <<71453, 71455>>, <<71458, 71461>>, <<71463, 71467>>, <<71727, 71735>>, <<71737,
    71738>>, <<71995, 71996>>, <<71998, 71998>>, <<72003, 72003>>, <<72148, 72151>>,
    <<72154, 72155>>, <<72160, 72160>>, <<72193, 72202>>, <<72243, 72248>>, <<72251,
    72254>>, <<72263, 72263>>, <<72273, 72278>>, <<72281, 72283>>, <<72330, 72342>>,
    <<72344, 72345>>, <<72752, 72758>>, <<72760, 72765>>, <<72767, 72767>>, <<72850,
    72871>>, <<72874, 72880>>, <<72882, 72883>>, <<72885, 72886>>, <<73009, 73014>>,
    <<73018, 73018>>, <<73020, 73021>>, <<73023, 73029>>, <<73031, 73031>>, <<73104,
    73105>>, <<73109, 73109>>, <<73111, 73111>>, <<73459, 73460>>, <<78896, 78904>>,
    <<92912, 92916>>, <<92976, 92982>>, <<92992, 92995>>, <<94031, 94031>>, <<94095,
    94111>>, <<94176, 94177>>, <<94179, 94180>>, <<110576, 110579>>, <<110581, 110587>>,
    <<110589, 110590>>, <<113821, 113822>>, <<113824, 113827>>, <<118528, 118573>>,
    <<118576, 118598>>, <<119143, 119145>>, <<119155, 119170>>, <<119173, 119179>>,
    <<119210, 119213>>, <<119362, 119364>>, <<121344, 121398>>, <<121403, 121452>>,
    <<121461, 121461>>, <<121476, 121476>>, <<121499, 121503>>, <<121505, 121519>>,
    <<122880, 122886>>, <<122888, 122904>>, <<122907, 122913>>, <<122915, 122916>>,
    <<122918, 122922>>, <<123184, 123197>>, <<123566, 123566>>, <<123628, 123631>>,
    <<125136, 125142>>, <<125252, 125259>>, <<127995, 127999>>, <<917505, 917505>>,
    <<917536, 917631>>, <<917760, 917999>>
  >>

\* str.lower() of one character out of context: 304 (capital I with dot above)
\* gives two characters, every other character one
LowerChar(c) ==
    IF c < 128 THEN (IF 65 <= c /\ c <= 90 THEN <<c + 32>> ELSE <<c>>)
    ELSE IF c = 304 THEN <<105, 775>>
    ELSE LET rs == {r \in 1..Len(LowerRuns) :
                       /\ LowerRuns[r][1] <= c /\ c <= LowerRuns[r][2]
                       /\ (c - LowerRuns[r][1]) % LowerRuns[r][3] = 0}
         IN IF rs = {} THEN <<c>>
            ELSE <<c + LowerRuns[CHOOSE r \in rs : TRUE][4]>>

\* the capital sigma at position k of s is final: a cased character comes
\* before it and none after it, case-ignorable characters being skipped
FinalSigma(s, k) ==
    /\ \E j \in 1..(k - 1) :
          /\ InRuns(s[j], CasedRuns)
          /\ \A m \in (j + 1)..(k - 1) : InRuns(s[m], IgnorableRuns)
    /\ ~\E j \in (k + 1)..Len(s) :
          /\ ~InRuns(s[j], IgnorableRuns)
          /\ InRuns(s[j], CasedRuns)
          /\ \A m \in (k + 1)..(j - 1) : InRuns(s[m], IgnorableRuns)

\* s.lower(); 931 is the capital sigma, 962 the final and 963 the other small one
Lower(s) ==
    Concat([k \in 1..Len(s) |->
               IF s[k] = 931
               THEN (IF FinalSigma(s, k) THEN <<962>> ELSE <<963>>)
               ELSE LowerChar(s[k])])

\* needle in hay
Contains(hay, needle) ==
    \E p \in 0..(Len(hay) - Len(needle)) :
        \A k \in 1..Len(needle) : hay[p + k] = needle[k]

(***************************************************************************)
(* extrair_cnpj: re.findall(r'\d{2}\.\d{3}\.\d{3}/\d{4}-\d{2}', str(x))    *)
(***************************************************************************)
\* the pattern, one element per character: the class \d or a literal character
Classe  == [d |-> TRUE, c |-> 0]
Lit(ch) == [d |-> FALSE, c |-> ch]

padrao == <<Classe, Classe, Lit(46), Classe, Classe, Classe, Lit(46),
            Classe, Classe, Classe, Lit(47), Classe, Classe, Classe, Classe,
            Lit(45), Classe, Classe>>

\* the digit zero of every script: the ten characters from each of them on
\* are the decimal digits (category Nd)
DigitZeros ==
  <<
    48, 1632, 1776, 1984, 2406, 2534, 2662, 2790, 2918, 3046, 3174, 3302, 3430, 3558,
    3664, 3792, 3872, 4160, 4240, 6112, 6160, 6470, 6608, 6784, 6800, 6992, 7088, 7232,
    7248, 42528, 43216, 43264, 43472, 43504, 43600, 44016, 65296, 66720, 68912, 69734,
    69872, 69942, 70096, 70384, 70736, 70864, 71248, 71360, 71472, 71904, 72016, 72784,
    73040, 73120, 92768, 92864, 93008, 120782, 120792, 120802, 120812, 120822, 123200,
    123632, 125264, 130032
  >>

\* \d of a str pattern: any Unicode decimal digit
IsDigit(c) ==
    IF c < 128 THEN 48 <= c /\ c <= 57
    ELSE \E z \in 1..Len(DigitZeros) : DigitZeros[z] <= c /\ c <= DigitZeros[z] + 9

\* the pattern matches s at offset p (0-based)
MatchAt(s, p) ==
    /\ p + Len(padrao) <= Len(s)
    /\ \A k \in 1..Len(padrao) :
          IF padrao[k].d THEN IsDigit(s[p + k]) ELSE s[p + k] = padrao[k].c

RECURSIVE FindAll(_, _)
\* non-overlapping matches, left to right, scanning from offset p
FindAll(s, p) ==
    IF p + Len(padrao) > Len(s) THEN << >>
    ELSE IF MatchAt(s, p)
         THEN <<SubSeq(s, p + 1, p + Len(padrao))>> \o FindAll(s, p + Len(padrao))
         ELSE FindAll(s, p + 1)

extrair_cnpj(texto) == FindAll(PyStr(texto), 0)

\* the literals of the program
TxtErro          == <<69, 114, 114, 111, 58, 32>>  \* "Erro: "
TxtNaoEncontrado == <<78, 227, 111, 32, 101, 110, 99, 111, 110, 116, 114, 97, 100, 111, 32, 110, 97, 32, 82, 101, 99, 101, 105, 116, 97>>  \* "Não encontrado na Receita"
TxtAtivo         == <<65, 116, 105, 118, 111>>  \* "Ativo"
TxtTraco         == <<45>>  \* "-"
TxtCnpj          == <<67, 78, 80, 74, 58, 32>>  \* "CNPJ: "
TxtRazao         == <<82, 97, 122, 227, 111, 32, 83, 111, 99, 105, 97, 108, 58, 32>>  \* "Razão Social: "
TxtMunicipio     == <<77, 117, 110, 105, 99, 237, 112, 105, 111, 58, 32>>  \* "Município: "
TxtSituacao      == <<83, 105, 116, 117, 97, 231, 227, 111, 32, 67, 97, 100, 97, 115, 116, 114, 97, 108, 58, 32>>  \* "Situação Cadastral: "
TxtGet           == <<103, 101, 116>>  \* "get"

(***************************************************************************)
(* The registry's answer to one requests.get, as consultar_receita sees it *)
(*   kind = "raise": requests.get raised, msg is str(e)                    *)
(*   kind = "http" : a response with the given status code; ok tells       *)
(*                   whether resposta.json() parses, body is the parsed    *)
(*                   value, msg is str(e) of the parse error               *)
(***************************************************************************)
Raise(m)        == [kind |-> "raise", status |-> 0, ok |-> FALSE, body |-> Null, msg |-> m]
Http(code)      == [kind |-> "http", status |-> code, ok |-> FALSE, body |-> Null, msg |-> << >>]
BadJson(m)      == [kind |-> "http", status |-> 200, ok |-> FALSE, body |-> Null, msg |-> m]
Json(val)       == [kind |-> "http", status |-> 200, ok |-> TRUE, body |-> val, msg |-> << >>]

Registro(c, r, m, s) == [CNPJ |-> c, Razao |-> r, Municipio |-> m, Situacao |-> s]

\* variant: the message of the exception is dropped
RegistroErro_SemMensagem(cnpj, m) ==
    Registro(PyOr(Str(cnpj), EmptyStr), EmptyStr, EmptyStr, Str(TxtErro))

\* the dict of the except branch
RegistroErro(cnpj, m) ==
    Registro(PyOr(Str(cnpj), EmptyStr), EmptyStr, EmptyStr, Str(TxtErro \o m))

\* the dict of the else branch (status code other than 200)
RegistroNaoEncontrado(cnpj) ==
    Registro(PyOr(Str(cnpj), EmptyStr), EmptyStr, EmptyStr,
             Str(TxtNaoEncontrado))

\* dados.get("descricao_situacao_cadastral", "Ativo") or ""
Situacao(d) ==
    PyOr(Get(d, "descricao_situacao_cadastral", Str(TxtAtivo)), EmptyStr)

\* the three-way `or` of the municipality, once the nested gets succeeded
Municipio(d, cidade) ==
    PyOr(PyOr(Get(cidade, "nome", EmptyStr), Get(d, "municipio", EmptyStr)), EmptyStr)

\* dados.get("razao_social", "") or ""
RazaoSocial(d) == PyOr(Get(d, "razao_social", EmptyStr), EmptyStr)

\* the status-200 branch; an AttributeError of a .get on a non-dict is caught
\* by the enclosing except
RegistroEncontrado(cnpj, dados) ==
    IF dados.t # "obj" THEN RegistroErro(cnpj, AttrError(dados, TxtGet))
    ELSE LET est == Get(dados.v, "estabelecimento", EmptyObj) IN
         IF est.t # "obj" THEN RegistroErro(cnpj, AttrError(est, TxtGet))
         ELSE LET cid == Get(est.v, "cidade", EmptyObj) IN
              IF cid.t # "obj" THEN RegistroErro(cnpj, AttrError(cid, TxtGet))
              ELSE Registro(PyOr(Str(cnpj), EmptyStr),
                            RazaoSocial(dados.v),
                            Municipio(dados.v, cid.v),
                            Situacao(dados.v))

consultar_receita(cnpj, resp) ==
    IF resp.kind = "raise" THEN RegistroErro(cnpj, resp.msg)
    ELSE IF resp.status = 200
         THEN IF resp.ok THEN RegistroEncontrado(cnpj, resp.body)
              ELSE RegistroErro(cnpj, resp.msg)
         ELSE RegistroNaoEncontrado(cnpj)

(***************************************************************************)
(* The table and the main loop's computations.                             *)
(***************************************************************************)
\* df.values.flatten()
Flatten(t) == Concat(t)

\* cnpjs_encontrados after the two nested loops
Encontrados(t) == Concat([k \in 1..Len(Flatten(t)) |-> extrair_cnpj(Flatten(t)[k])])

Range(s) == {s[k] : k \in 1..Len(s)}

\* list(set(xs)): every ordering of the distinct elements
Ordens(S) == {o \in [1..Cardinality(S) -> S] : Range(o) = S}

\* variant: only the first cell is searched
cnpj_confere_PrimeiraCelula(t, rec) ==
    Contains(PyStr(Flatten(t)[1]), rec.CNPJ.v)

\* any(x in str(celula) for celula in df.values.flatten())
cnpj_confere(t, rec) ==
    \E k \in 1..Len(Flatten(t)) : Contains(PyStr(Flatten(t)[k]), rec.CNPJ.v)

\* variant: the comparison is case-sensitive
campo_confere_SemLower(t, x) ==
    IF Truthy(x)
    THEN \E k \in 1..Len(Flatten(t)) : Contains(PyStr(Flatten(t)[k]), x.v)
    ELSE FALSE

\* any(x.lower() in str(celula).lower() for celula in ...) if x else False
campo_confere(t, x) ==
    IF Truthy(x)
    THEN \E k \in 1..Len(Flatten(t)) : Contains(Lower(PyStr(Flatten(t)[k])), Lower(x.v))
    ELSE FALSE

razao_confere(t, rec) == campo_confere(t, rec.Razao)

municipio_confere(t, rec) == campo_confere(t, rec.Municipio)

\* x.lower() raises AttributeError when x is truthy and not a str; it is
\* evaluated for the first cell and nothing in the loop catches it
LowerFalha(t, x) == Truthy(x) /\ x.t # "str" /\ Len(Flatten(t)) > 0

Aborta(t, rec) == LowerFalha(t, rec.Razao) \/ LowerFalha(t, rec.Municipio)

SimNao(b) == IF b THEN "Sim" ELSE "Não"

Linha(info, conf) == [Informacao |-> info, Confere |-> conf]

\* f"...{x or '-'}"
OuTraco(x) == PyStr(PyOr(x, Str(TxtTraco)))

LinhaCnpj(t, rec) == Linha(TxtCnpj \o PyStr(rec.CNPJ), SimNao(cnpj_confere(t, rec)))

LinhaRazao(t, rec) ==
    Linha(TxtRazao \o OuTraco(rec.Razao), SimNao(razao_confere(t, rec)))

LinhaMunicipio(t, rec) ==
    Linha(TxtMunicipio \o OuTraco(rec.Municipio), SimNao(municipio_confere(t, rec)))

LinhaSituacao(rec) ==
    Linha(TxtSituacao \o OuTraco(rec.Situacao), "")

\* variant: the municipality row is appended before the legal-name row
Linhas_TrocaOrdem(t, rec) ==
    <<LinhaCnpj(t, rec), LinhaMunicipio(t, rec), LinhaRazao(t, rec), LinhaSituacao(rec)>>

\* the four resultados.append of one iteration
Linhas(t, rec) ==
    <<LinhaCnpj(t, rec), LinhaRazao(t, rec), LinhaMunicipio(t, rec), LinhaSituacao(rec)>>

(***************************************************************************)
(* Inputs: cell contents and registry answers.                             *)
(***************************************************************************)
CnpjA == <<49, 50, 46, 51, 52, 53, 46, 54, 55, 56, 47, 48, 48, 48, 49, 45, 57, 53>>  \* "12.345.678/0001-95"
\* the first two digits are Arabic-Indic: 1641 is nine, 1640 is eight
CnpjB == <<1641, 1640>> \o
         <<46, 55, 54, 53, 46, 52, 51, 50, 47, 48, 48, 48, 49, 45, 49, 48>>  \* ".765.432/0001-10"

Acme  == <<65, 67, 77, 69>>  \* "ACME"
Zed   == <<90, 69, 68>>  \* "ZED"
SaoLuis == <<83, 195, 79, 32, 76, 85, 205, 83>>  \* "SÃO LUÍS"
Sp    == <<83, 80>>  \* "SP"

CelA       == Str(CnpjA)
\* two identifiers and other text in one cell
CelAB      == Str(<<105, 100, 32>> \o CnpjB \o <<59>> \o CnpjA \o <<32, 111, 107>>)  \* " ok"  \* ";"  \* "id "
CelNome    == Str(<<65, 99, 109, 101, 32, 76, 116, 100, 97, 44, 32, 83, 227, 111, 32, 76, 117, 237, 115>>)  \* "Acme Ltda, São Luís"
CelVazia   == EmptyStr
CelNumero  == Num(95)
\* one digit short of the identifier shape
CelParcial == Str(SubSeq(CnpjA, 1, 17))

CellPool == {CelA, CelAB, CelNome, CelVazia, CelNumero, CelParcial}

\* every table of r rows and c columns with at most MaxCells cells
Tabelas ==
    UNION {[1..f[1] -> [1..f[2] -> CellPool]] :
              f \in {g \in (1..MaxCells) \X (1..MaxCells) : g[1] * g[2] <= MaxCells}}

\* a JSON object from optional fields: << >> is an absent key, <<v>> a present one
Objeto(opts) ==
    Obj([k \in {f \in DOMAIN opts : opts[f] # << >>} |-> opts[k][1]])

Cidade(nome)  == Objeto([nome |-> nome])
Estab(cidade) == Objeto([cidade |-> cidade])

Dados(r, e, m, s) ==
    Objeto([razao_social |-> r, estabelecimento |-> e, municipio |-> m,
            descricao_situacao_cadastral |-> s])

Ausente == << >>

RazaoOpts == {Ausente, <<Null>>, <<EmptyStr>>, <<Str(Acme)>>, <<Num(7)>>}

EstabOpts == {Ausente, <<Null>>, <<EmptyObj>>, <<Estab(<<Null>>)>>,
              <<Estab(<<EmptyObj>>)>>, <<Estab(<<Cidade(<<Null>>)>>)>>,
              <<Estab(<<Cidade(<<EmptyStr>>)>>)>>, <<Estab(<<Cidade(<<Str(SaoLuis)>>)>>)>>}

MunicipioOpts == {Ausente, <<EmptyStr>>, <<Str(Sp)>>}

SituacaoOpts == {Ausente, <<Null>>, <<EmptyStr>>, <<Str(<<65, 116, 105, 118, 97>>)>>}  \* "Ativa"

Falhas == {Raise(<<116, 105, 109, 101, 100, 32, 111, 117, 116>>), Http(404),  \* "timed out"
           BadJson(<<69, 120, 112, 101, 99, 116, 105, 110, 103, 32, 118, 97, 108, 117, 101>>), Json(Lst)}  \* "Expecting value"

\* every combination of the four fields the program reads
RespostasPayload ==
    Falhas \cup {Json(Dados(r, e, m, s)) : r \in RazaoOpts, e \in EstabOpts,
                                           m \in MunicipioOpts, s \in SituacaoOpts}

\* a selection covering each branch, for the runs over many tables
Respostas ==
    Falhas \cup
    { Json(Dados(<<Str(Acme)>>, <<Estab(<<Cidade(<<Str(SaoLuis)>>)>>)>>, Ausente,
                 <<Str(<<65, 116, 105, 118, 97>>)>>)),  \* "Ativa"
      Json(Dados(<<Str(Zed)>>, Ausente, <<Str(Sp)>>, Ausente)),
      Json(Dados(<<Str(Acme)>>, <<Null>>, <<Str(SaoLuis)>>, Ausente)),
      Json(Dados(<<Num(7)>>, Ausente, Ausente, <<EmptyStr>>)),
      Json(Dados(Ausente, Ausente, Ausente, <<EmptyStr>>)) }

RespostasPar ==
    { Raise(<<116, 105, 109, 101, 100, 32, 111, 117, 116>>), Http(404),  \* "timed out"
      Json(Dados(<<Str(Acme)>>, <<Estab(<<Cidade(<<Str(SaoLuis)>>)>>)>>, Ausente,
                 <<Str(<<65, 116, 105, 118, 97>>)>>)),  \* "Ativa"
      Json(Dados(<<Str(Zed)>>, Ausente, <<Str(Sp)>>, Ausente)),
      Json(Dados(<<Num(7)>>, Ausente, Ausente, Ausente)) }

TabelasPayload == {<<<<CelA>>, <<CelNome>>>>}

TabelasPar == {<<<<CelAB>>, <<CelNome>>>>, <<<<CelA>>, <<CelAB>>>>}

(***************************************************************************)
(* State machine of one script run (and of a re-run over the same file).   *)
(***************************************************************************)
SemRegistro == Registro(EmptyStr, EmptyStr, EmptyStr, EmptyStr)

InicioDe(tabelas) ==
    /\ df \in tabelas
    /\ pc = "start"
    /\ cnpjs_unicos = << >>
    /\ i = 0
    /\ receita = SemRegistro
    /\ resultados = << >>
    /\ criado = FALSE
    /\ warning = FALSE
    /\ consultas = << >>
    /\ respostas = << >>
    /\ anterior = << >>

Init == InicioDe(Tabelas)

InitPayload == InicioDe(TabelasPayload)

InitPar == InicioDe(TabelasPar)

\* variant: the emptiness test is missing, the report is always started
Extrair_SemAviso ==
    /\ pc = "start"
    /\ \E o \in Ordens(Range(Encontrados(df))) : cnpjs_unicos' = o
    /\ resultados' = << >>
    /\ criado' = TRUE
    /\ pc' = "loop"
    /\ i' = 0
    /\ UNCHANGED <<df, warning, receita, consultas, respostas, anterior>>

\* lines 83-98: extraction, deduplication, warning or start of the loop
Extrair ==
    /\ pc = "start"
    /\ LET unicos == Range(Encontrados(df)) IN
       IF unicos = {}
       THEN /\ warning' = TRUE
            /\ pc' = "warned"
            /\ UNCHANGED <<cnpjs_unicos, resultados, criado>>
       ELSE /\ \E o \in Ordens(unicos) : cnpjs_unicos' = o
            /\ resultados' = << >>
            /\ criado' = TRUE
            /\ pc' = "loop"
            /\ UNCHANGED warning
    /\ i' = 0
    /\ UNCHANGED <<df, receita, consultas, respostas, anterior>>

\* line 101: the lookup of the i-th identifier, answered by resp
Consultar(resp) ==
    /\ pc = "loop"
    /\ i < Len(cnpjs_unicos)
    /\ receita' = consultar_receita(cnpjs_unicos[i + 1], resp)
    /\ consultas' = Append(consultas, cnpjs_unicos[i + 1])
    /\ respostas' = Append(respostas, resp)
    /\ pc' = "consultado"
    /\ UNCHANGED <<df, cnpjs_unicos, i, resultados, criado, warning, anterior>>

\* lines 103-135: the verdicts and the four appends, or the uncaught
\* AttributeError of .lower() that ends the script
Registrar ==
    /\ pc = "consultado"
    /\ IF Aborta(df, receita)
       THEN /\ pc' = "aborted"
            /\ UNCHANGED <<resultados, i>>
       ELSE /\ resultados' = resultados \o Linhas(df, receita)
            /\ i' = i + 1
            /\ pc' = "loop"
    /\ UNCHANGED <<df, cnpjs_unicos, receita, criado, warning, consultas, respostas,
                   anterior>>

\* line 137: the loop is over, the report is built
Concluir ==
    /\ pc = "loop"
    /\ i = Len(cnpjs_unicos)
    /\ pc' = "done"
    /\ UNCHANGED <<df, cnpjs_unicos, i, receita, resultados, criado, warning,
                   consultas, respostas, anterior>>

\* the script runs again from the top over the same uploaded file; what the
\* run that ended did is remembered in anterior
Rerun ==
    /\ pc \in {"done", "warned", "aborted"}
    /\ anterior' = <<[fim |-> pc, unicos |-> cnpjs_unicos, respostas |-> respostas,
                      resultados |-> resultados]>>
    /\ pc' = "start"
    /\ cnpjs_unicos' = << >>
    /\ i' = 0
    /\ receita' = SemRegistro
    /\ resultados' = << >>
    /\ criado' = FALSE
    /\ warning' = FALSE
    /\ consultas' = << >>
    /\ respostas' = << >>
    /\ UNCHANGED df

Next ==
    \/ Extrair
    \/ \E resp \in Respostas : Consultar(resp)
    \/ Registrar
    \/ Concluir

Spec == Init /\ [][Next]_vars

NextPayload ==
    \/ Extrair
    \/ \E resp \in RespostasPayload : Consultar(resp)
    \/ Registrar
    \/ Concluir

SpecPayload == InitPayload /\ [][NextPayload]_vars

NextPar ==
    \/ Extrair
    \/ \E resp \in RespostasPar : Consultar(resp)
    \/ Registrar
    \/ Concluir
    \/ Rerun

SpecPar == InitPar /\ [][NextPar]_vars

TypeOK ==
    /\ pc \in {"start", "warned", "loop", "consultado", "aborted", "done"}
    /\ i \in 0..Len(cnpjs_unicos)
    /\ Len(anterior) <= 1

(***************************************************************************)
(* Properties.                                                             *)
(***************************************************************************)
\* identifiers occurring as a substring of some cell's text
IdsNaTabela ==
    {c \in {CnpjA, CnpjB} :
        \E k \in 1..Len(Flatten(df)) : Contains(PyStr(Flatten(df)[k]), c)}

\* a status-200 answer whose body is a JSON object
RespostaObjeto(r) == r.kind = "http" /\ r.status = 200 /\ r.ok /\ r.body.t = "obj"

\* estabelecimento and cidade are objects or absent
CaminhoIntegro(d) ==
    LET est == Get(d, "estabelecimento", EmptyObj) IN
    /\ est.t = "obj"
    /\ Get(est.v, "cidade", EmptyObj).t = "obj"

\* the value of key k of d when it is present and non-empty, else the empty string
ValorOuVazio(d, k) ==
    IF k \in DOMAIN d /\ Truthy(d[k]) THEN d[k] ELSE EmptyStr

\* estabelecimento.cidade.nome when every level of the path is there and
\* non-empty, else the empty string
NomeAninhado(d) ==
    LET est == ValorOuVazio(d, "estabelecimento") IN
    IF est.t # "obj" THEN EmptyStr
    ELSE LET cid == ValorOuVazio(est.v, "cidade") IN
         IF cid.t # "obj" THEN EmptyStr ELSE ValorOuVazio(cid.v, "nome")

\* the answer is a failure the lookup reports as text: the text
TextoDaFalha(r) ==
    IF r.kind = "raise" THEN TxtErro \o r.msg
    ELSE IF r.status # 200 THEN TxtNaoEncontrado
    ELSE IF ~r.ok THEN TxtErro \o r.msg
    ELSE IF r.body.t = "list" THEN TxtErro \o
             <<39, 108, 105, 115, 116, 39, 32, 111, 98, 106, 101, 99, 116, 32, 104, 97, 115, 32, 110, 111, 32, 97, 116, 116, 114, 105, 98, 117, 116, 101, 32, 39, 103, 101, 116, 39>>  \* "'list' object has no attribute 'get'"
    ELSE TxtErro \o
             <<39, 78, 111, 110, 101, 84, 121, 112, 101, 39, 32, 111, 98, 106, 101, 99, 116, 32, 104, 97, 115, 32, 110, 111, 32, 97, 116, 116, 114, 105, 98, 117, 116, 101, 32, 39, 103, 101, 116, 39>>  \* "'NoneType' object has no attribute 'get'"

\* the call raised, the status is not 200, the body does not parse, or reading
\* the body raised
EhFalha(r) ==
    \/ r.kind = "raise"
    \/ r.status # 200
    \/ ~r.ok
    \/ r.body.t = "list"
    \/ (r.body.t = "obj" /\ ~CaminhoIntegro(r.body.v))

\* C1: whatever the lookup outcomes, the run is never aborted: the main loop
\* always gets to its end.
C1_NuncaAborta == pc # "aborted"

\* C2: after i iterations the report holds 4*i rows; block j is the CNPJ,
\* Razão Social, Município and Situação Cadastral rows of the j-th processed
\* identifier, the first three with verdict Sim or Não, the last with the
\* empty verdict, whatever the lookup outcome.
C2_QuatroLinhasPorIdentificador ==
    /\ Len(resultados) = 4 * i
    /\ \A j \in 0..(i - 1) :
          LET rec == consultar_receita(cnpjs_unicos[j + 1], respostas[j + 1]) IN
          /\ resultados[4 * j + 1].Informacao = TxtCnpj \o cnpjs_unicos[j + 1]
          /\ resultados[4 * j + 2].Informacao
                = TxtRazao \o (IF rec.Razao.v = << >> THEN TxtTraco ELSE rec.Razao.v)
          /\ resultados[4 * j + 3].Informacao
                = TxtMunicipio \o (IF rec.Municipio.v = << >> THEN TxtTraco ELSE rec.Municipio.v)
          /\ resultados[4 * j + 4].Informacao
                = TxtSituacao \o (IF rec.Situacao.v = << >> THEN TxtTraco ELSE rec.Situacao.v)
          /\ \A k \in 1..3 : resultados[4 * j + k].Confere \in {"Sim", "Não"}
          /\ resultados[4 * j + 4].Confere = ""

\* two identifiers processed, one after a failed lookup and one after a found one
C2_Witness ==
    /\ pc = "done"
    /\ i = 2
    /\ EhFalha(respostas[1])
    /\ RespostaObjeto(respostas[2])

\* C3: on a status-200 answer the record's status is the payload's
\* descricao_situacao_cadastral when present and non-empty and "Ativo" when it
\* is absent or empty, and the status row shows it.
C3_SituacaoAtivoQuandoVazia ==
    /\ pc = "consultado" /\ RespostaObjeto(respostas[Len(respostas)])
         /\ CaminhoIntegro(respostas[Len(respostas)].body.v)
       => LET d == respostas[Len(respostas)].body.v IN
          receita.Situacao
            = (IF ValorOuVazio(d, "descricao_situacao_cadastral") = EmptyStr
               THEN Str(TxtAtivo) ELSE d["descricao_situacao_cadastral"])
    /\ \A j \in 1..i :
          RespostaObjeto(respostas[j]) /\ CaminhoIntegro(respostas[j].body.v)
          => LET d == respostas[j].body.v IN
             resultados[4 * j].Informacao
               = TxtSituacao \o
                 (IF ValorOuVazio(d, "descricao_situacao_cadastral") = EmptyStr
                  THEN TxtAtivo ELSE PyStr(d["descricao_situacao_cadastral"]))

\* C4: on a status-200 answer the record is Found with the payload's legal name
\* and, as municipality, the first non-empty of estabelecimento.cidade.nome,
\* municipio and the empty string, also when the nested path is missing, null
\* or empty at any level.
C4_MunicipioPrimeiroNaoVazio ==
    pc = "consultado" /\ RespostaObjeto(respostas[Len(respostas)])
    => LET d == respostas[Len(respostas)].body.v IN
       /\ receita.Razao = ValorOuVazio(d, "razao_social")
       /\ receita.Municipio
            = (IF NomeAninhado(d) # EmptyStr THEN NomeAninhado(d)
               ELSE ValorOuVazio(d, "municipio"))

\* C5: each distinct identifier of the table is looked up exactly once in a
\* run, whatever the outcomes; a run that ended issued as many lookups as
\* there are distinct identifiers; a lookup is issued only after the four rows
\* of the previous identifier were appended.
C5_UmaConsultaPorIdentificador ==
    /\ \A a, b \in 1..Len(consultas) : consultas[a] = consultas[b] => a = b
    /\ Range(consultas) \subseteq IdsNaTabela
    /\ pc \in {"done", "aborted"} => Len(consultas) = Cardinality(IdsNaTabela)
    /\ Len(consultas) > 0 => Len(resultados) >= 4 * (Len(consultas) - 1)

\* C6: the legal-name and municipality verdicts are Sim exactly when the
\* registry value is non-empty and its lower-cased form is a substring of the
\* lower-cased text of some cell anywhere in the table.
C6_VeredictoPorSubstring ==
    \A j \in 0..(i - 1) :
       LET rec == consultar_receita(cnpjs_unicos[j + 1], respostas[j + 1])
           Ocorre(x) ==
               /\ x.v # << >>
               /\ \E r \in 1..Len(df) : \E c \in 1..Len(df[r]) :
                     Contains(Lower(PyStr(df[r][c])), Lower(x.v))
       IN /\ resultados[4 * j + 2].Confere = "Sim" <=> Ocorre(rec.Razao)
          /\ resultados[4 * j + 3].Confere = "Sim" <=> Ocorre(rec.Municipio)
          /\ resultados[4 * j + 2].Confere = "Não" <=> ~Ocorre(rec.Razao)
          /\ resultados[4 * j + 3].Confere = "Não" <=> ~Ocorre(rec.Municipio)

\* the name is found, in another case, in a row other than the identifier's,
\* and in the same report a name that is in no cell is not
C6_Witness ==
    /\ df = <<<<CelAB>>, <<CelNome>>>>
    /\ pc = "done"
    /\ resultados[2].Informacao = TxtRazao \o Acme
    /\ resultados[2].Confere = "Sim"
    /\ resultados[3].Confere = "Sim"
    /\ resultados[6].Informacao = TxtRazao \o Zed
    /\ resultados[6].Confere = "Não"

\* C7: a failed lookup gives a record with empty legal name and municipality
\* and a status text naming the failure; its rows are 'Razão Social: -' Não,
\* 'Município: -' Não and 'Situação Cadastral: <text>' with the empty verdict.
C7_FalhaViraRegistro ==
    /\ pc = "consultado" /\ EhFalha(respostas[Len(respostas)])
       => /\ receita.Razao = EmptyStr
          /\ receita.Municipio = EmptyStr
          /\ receita.Situacao = Str(TextoDaFalha(respostas[Len(respostas)]))
    /\ \A j \in 0..(i - 1) :
          EhFalha(respostas[j + 1])
          => /\ resultados[4 * j + 2] = Linha(TxtRazao \o TxtTraco, "Não")
             /\ resultados[4 * j + 3] = Linha(TxtMunicipio \o TxtTraco, "Não")
             /\ resultados[4 * j + 4]
                  = Linha(TxtSituacao \o TextoDaFalha(respostas[j + 1]), "")

\* an exception and a non-200 status, both reported, the name being in the table
C7_Witness ==
    /\ pc = "done"
    /\ i = 2
    /\ respostas[1].kind = "raise"
    /\ respostas[2].kind = "http" /\ respostas[2].status = 404
    /\ \E k \in 1..Len(Flatten(df)) : Flatten(df)[k] = CelNome

\* C8: when no cell contains a substring of the identifier shape, no lookup is
\* issued, the warning is emitted once the extraction ran, and the report is
\* neither created nor appended to.
C8_SemIdentificadorSemConsulta ==
    (\A k \in 1..Len(Flatten(df)) :
        \A p \in 0..Len(PyStr(Flatten(df)[k])) : ~MatchAt(PyStr(Flatten(df)[k]), p))
    => /\ consultas = << >>
       /\ resultados = << >>
       /\ ~criado
       /\ pc \in {"start", "warned"}
       /\ pc = "warned" <=> warning

\* the warning was emitted for a table holding a string one digit short
C8_Witness ==
    /\ pc = "warned"
    /\ warning
    /\ \E k \in 1..Len(Flatten(df)) : Flatten(df)[k] = CelParcial

\* C9: the four rows reported for an identifier depend only on it, on its own
\* lookup outcome and on the table: two ended runs over the same table give it
\* the same rows unless its own outcome differs, whatever the processing
\* order and the outcomes of the others.
C9_LinhasIndependentes ==
    anterior # << >> /\ anterior[1].fim \in {"done", "aborted"}
        /\ pc \in {"done", "aborted"}
    => \A c \in IdsNaTabela :
          LET Pos(seq) == {k \in 1..Len(seq) : seq[k] = c}
              \* the answers c got in a run: at most one
              Resp(un, rs) == {rs[k] : k \in Pos(un) \cap (1..Len(rs))}
              \* the rows of c in a run's report: at most one block
              Bloco(un, res) ==
                  {SubSeq(res, 4 * k - 3, 4 * k) : k \in {q \in Pos(un) : 4 * q <= Len(res)}}
          IN (\A o1 \in Resp(anterior[1].unicos, anterior[1].respostas) :
                 \A o2 \in Resp(cnpjs_unicos, respostas) : o1 = o2)
             => Bloco(anterior[1].unicos, anterior[1].resultados)
                  = Bloco(cnpjs_unicos, resultados)

\* C10: the identifier row of every processed identifier is 'CNPJ: ' followed
\* by the identifier as extracted, with verdict Sim, for every lookup outcome.
C10_LinhaCnpjSempreSim ==
    \A j \in 0..(i - 1) :
       resultados[4 * j + 1] = Linha(TxtCnpj \o cnpjs_unicos[j + 1], "Sim")

\* identifiers found only in the second row, processed after an exception, a
\* non-200 status or a found record
C10_Witness ==
    /\ pc = "done"
    /\ i = 2
    /\ df[1][1] = CelVazia
    /\ respostas[1].kind = "raise"
    /\ RespostaObjeto(respostas[2])

====
